---- MODULE Spec2Model ----
(***************************************************************************)
(* Model of the generate-video edge function                               *)
(* (functions/generate-video/index.ts): one request handler that validates *)
(* the request, then tries the Stable Video Diffusion endpoint and, on     *)
(* failure, the I2VGen-XL endpoint.  The handler is cut at its awaits      *)
(* (req.json, fetch, Response.text); everything between two awaits is one  *)
(* step.                                                                   *)
(***************************************************************************)
EXTENDS Integers, Sequences, FiniteSets, TLC

VARIABLES
    huggingfaceApiKey,  \* Deno.env.get('HUGGINGFACE_API_KEY')
    pc,                 \* position of the handler (which await it is parked on)
    req,                \* the inbound request: method and JSON body
    enhancedPrompt,     \* the composed prompt, a sequence of text pieces
    svdResponse,        \* the Response of the resolved SVD fetch
    i2vResponse,        \* the Response of the resolved I2VGen fetch
    calls,              \* outbound fetches issued for this request, in order
    inflight,           \* provider calls issued and not yet concluded
    attempts,           \* concluded provider attempts, in order
    responses,          \* responses returned to the caller for this request
    keyLookedUp,        \* Deno.env.get was called for this request
    disconnectedAt,     \* where the handler was when the caller went away
    \* the encoding of one provider payload, byte by byte
    payload,            \* the bytes the provider sent
    bodyText,           \* await response.text(): the code points of the decoded body
    videoDataUrl,       \* the data URL built from bodyText
    encPc,              \* position in the encoding: "text", "encode", "done"
    \* the page (App.tsx)
    selectedImage,      \* useState<File | null>
    imagePreview,       \* useState<string | null>
    reading,            \* files a FileReader is still reading
    generatedVideo,     \* useState<string | null>
    isGenerating,       \* useState(false)
    progress,           \* useState(0)
    progressInterval,   \* the interval started by generateVideo is running
    uiPc,               \* position of generateVideo: "idle", "upload", "timeout"
    uploading,          \* the File captured by the running generateVideo
    lastToast           \* title of the last toast shown

handlerVars == <<huggingfaceApiKey, pc, req, enhancedPrompt, svdResponse, i2vResponse,
                 calls, inflight, attempts, responses, keyLookedUp, disconnectedAt>>

encVars == <<payload, bodyText, videoDataUrl, encPc>>

uiVars == <<selectedImage, imagePreview, reading, generatedVideo, isGenerating, progress, progressInterval,
            uiPc, uploading, lastToast>>

vars == <<handlerVars, encVars, uiVars>>

-----------------------------------------------------------------------------
(* Values *)

Undefined == "<undefined>"

\* variant: only undefined counts as missing (the empty string passes)
FalsyUndefinedOnly(x) == x = Undefined

\* JavaScript truthiness of the values the model uses (strings and undefined)
Falsy(x) == x = Undefined \/ x = ""

SVD == "stable-video-diffusion"
I2V == "i2vgen-xl"

SVD_URL == "https://api-inference.huggingface.co/models/stabilityai/stable-video-diffusion-img2vid-xt"
I2V_URL == "https://api-inference.huggingface.co/models/ali-vilab/i2vgen-xl"

Methods == {"OPTIONS", "GET", "POST"}

ImageUrls == {Undefined, "", "https://x/img.png"}
Prompts == {Undefined, "", "a cat waving"}
AnimationStyles == {Undefined, "smooth", "dynamic", "cinematic", "weird"}

\* what await req.json() can produce: a rejected parse, the literal null,
\* or an object with the three fields (each possibly absent)
RequestBodies ==
    {[kind |-> "invalid"], [kind |-> "null"]}
    \cup [kind : {"object"}, imageUrl : ImageUrls, prompt : Prompts,
          animationStyle : AnimationStyles]

ApiKeys == {Undefined, "", "hf_secret"}

\* HTTP statuses a provider answers with
ProviderStatuses == {200, 404, 503}

\* A provider's response text, described by the features the handler looks
\* at: how JSON.parse fares on it, which spelling of the loading marker it
\* contains, and whether it has more bytes than the engine accepts as
\* arguments of one call.
JsonShapes == {"notJson", "errorField", "noErrorField", "nullLiteral"}
Markers == {"none", "loading", "Loading", "LOADING"}
Sizes == {"small", "huge"}

ResponseTexts ==
    {t \in [json : JsonShapes, marker : Markers, size : Sizes] :
        t.json = "nullLiteral" => t.marker = "none"}

\* the Response object of a resolved fetch, and the value before it resolves
FetchResponse(status) == [status |-> status, ok |-> status >= 200 /\ status <= 299]

Unset == [unset |-> TRUE]

-----------------------------------------------------------------------------
(* Pure helpers *)

\* String.prototype.includes for the marker spellings
Includes(text, needle) == text.marker = needle

\* JSON.parse: throws, or yields null, or yields an object
JSONParse(text) ==
    CASE text.json = "notJson"      -> [threw |-> TRUE]
      [] text.json = "nullLiteral"  -> [threw |-> FALSE, type |-> "null"]
      [] text.json = "errorField"   -> [threw |-> FALSE, type |-> "object",
                                        error |-> "Model failed"]
      [] text.json = "noErrorField" -> [threw |-> FALSE, type |-> "object"]

\* The inner try block: JSON.parse, then throw when jsonResponse.error is
\* truthy.  Reading .error of null throws a TypeError.  TRUE when the block
\* ends in its catch clause.
InnerTryThrows(text) ==
    LET jsonResponse == JSONParse(text)
    IN  \/ jsonResponse.threw
        \/ /\ ~jsonResponse.threw
           /\ \/ jsonResponse.type = "null"
              \/ /\ "error" \in DOMAIN jsonResponse
                 /\ ~Falsy(jsonResponse.error)

\* String.fromCharCode(...videoBlob): the spread passes one argument per
\* byte and throws a RangeError when there are more than the engine allows
SpreadThrows(text) == text.size = "huge"

\* `data:video/mp4;base64,${base64Video}`
VideoDataUrl(text) == [mime |-> "video/mp4", encoding |-> "base64", of |-> text]

\* The branch the handler takes on a received response
Classify(response, text) ==
    IF response.ok /\ InnerTryThrows(text) THEN "BinarySuccess"
    ELSE IF Includes(text, "loading") \/ Includes(text, "Loading")
         THEN "ModelLoading"
         ELSE "OtherFailure"

\* motion_bucket_id of the SVD call
MotionBucketId(animationStyle) ==
    IF animationStyle = "dynamic" THEN 180
    ELSE IF animationStyle = "cinematic" THEN 120 ELSE 100

DefaultPrompt == "animate this image with natural motion"

\* variant: the switch cases lack their break, so a case runs into the next
StyleSuffixFallThrough(animationStyle) ==
    CASE animationStyle = "smooth" ->
            <<", smooth flowing motion, gentle movement, soft transitions, subtle animation",
              ", dynamic motion, energetic movement, vibrant action, lively animation",
              ", cinematic motion, dramatic movement, film-like quality, professional animation">>
      [] animationStyle = "dynamic" ->
            <<", dynamic motion, energetic movement, vibrant action, lively animation",
              ", cinematic motion, dramatic movement, film-like quality, professional animation">>
      [] animationStyle = "cinematic" ->
            <<", cinematic motion, dramatic movement, film-like quality, professional animation">>
      [] OTHER -> <<>>

StyleSuffix(animationStyle) ==
    CASE animationStyle = "smooth" ->
            <<", smooth flowing motion, gentle movement, soft transitions, subtle animation">>
      [] animationStyle = "dynamic" ->
            <<", dynamic motion, energetic movement, vibrant action, lively animation">>
      [] animationStyle = "cinematic" ->
            <<", cinematic motion, dramatic movement, film-like quality, professional animation">>
      [] OTHER -> <<>>

\* let enhancedPrompt = prompt || '...'; switch (animationStyle) { += ... }
EnhancedPrompt(prompt, animationStyle) ==
    <<IF Falsy(prompt) THEN DefaultPrompt ELSE prompt>> \o StyleSuffix(animationStyle)

-----------------------------------------------------------------------------
(* Responses *)

NullBody == [isNull |-> TRUE]

PreflightResponse == [status |-> 200, body |-> NullBody]

MethodNotAllowed == [status |-> 405, body |-> [error |-> "Method not allowed"]]

ImageRequired ==
    [status |-> 400, body |-> [success |-> FALSE, error |-> "Image URL is required"]]

KeyNotConfigured ==
    [status |-> 500,
     body |-> [success |-> FALSE, error |-> "Hugging Face API key not configured"]]

SuccessResponse(model, text) ==
    [status |-> 200,
     body |-> [success |-> TRUE, videoUrl |-> VideoDataUrl(text), model |-> model]]

\* variant: the loading response carries no retry hint
LoadingResponseNoRetryAfter ==
    [status |-> 503,
     body |-> [success |-> FALSE,
               error |-> "AI model is loading, please try again in 20-30 seconds"]]

LoadingResponse ==
    [status |-> 503,
     body |-> [success |-> FALSE,
               error |-> "AI model is loading, please try again in 20-30 seconds",
               retryAfter |-> 30]]

\* variant: the final fallback is reported as a server error
UnavailableAsServerError ==
    [status |-> 500,
     body |-> [success |-> FALSE,
               error |-> "Video generation temporarily unavailable. The AI models may be loading or experiencing high demand. Please try again in a few minutes.",
               retryAfter |-> 60,
               demo |-> TRUE]]

UnavailableResponse ==
    [status |-> 503,
     body |-> [success |-> FALSE,
               error |-> "Video generation temporarily unavailable. The AI models may be loading or experiencing high demand. Please try again in a few minutes.",
               retryAfter |-> 60,
               demo |-> TRUE]]

InternalError(message) ==
    [status |-> 500,
     body |-> [success |-> FALSE,
               error |-> "Internal server error during video generation",
               details |-> message]]

-----------------------------------------------------------------------------
(* Outbound calls *)

SvdCall ==
    [model |-> SVD, url |-> SVD_URL, inputs |-> req.body.imageUrl,
     parameters |-> [num_frames |-> 14,
                     motion_bucket_id |-> MotionBucketId(req.body.animationStyle),
                     fps |-> 6]]

\* variant: the fallback block posts to the first endpoint again
I2vCallSameEndpoint(p) ==
    [model |-> SVD, url |-> SVD_URL, inputs |-> p,
     parameters |-> [image |-> req.body.imageUrl, num_frames |-> 16, fps |-> 8]]

I2vCall(p) ==
    [model |-> I2V, url |-> I2V_URL, inputs |-> p,
     parameters |-> [image |-> req.body.imageUrl, num_frames |-> 16, fps |-> 8]]

Rejected(model) == [provider |-> model, settled |-> "rejected"]

Responded(model, response, text) ==
    [provider |-> model, settled |-> "response", status |-> response.status,
     ok |-> response.ok, text |-> text, class |-> Classify(response, text)]

-----------------------------------------------------------------------------
(* The handler *)

Null == [isNull |-> TRUE]

\* no payload is being encoded
EncoderAtRest ==
    /\ payload = <<>>
    /\ bodyText = <<>>
    /\ videoDataUrl = Null
    /\ encPc = "off"

\* the page as first rendered
PageAtRest ==
    /\ selectedImage = Null
    /\ imagePreview = Null
    /\ reading = {}
    /\ generatedVideo = Null
    /\ isGenerating = FALSE
    /\ progress = 0
    /\ progressInterval = FALSE
    /\ uiPc = "idle"
    /\ uploading = Null
    /\ lastToast = "none"

\* no request is being handled
HandlerIdle ==
    /\ pc = "idle"
    /\ req = [method |-> "NONE", body |-> [kind |-> "none"]]
    /\ enhancedPrompt = <<>>
    /\ svdResponse = Unset
    /\ i2vResponse = Unset
    /\ calls = <<>>
    /\ inflight = {}
    /\ attempts = <<>>
    /\ responses = <<>>
    /\ keyLookedUp = FALSE
    /\ disconnectedAt = "never"

Init ==
    /\ huggingfaceApiKey \in ApiKeys
    /\ HandlerIdle
    /\ EncoderAtRest
    /\ PageAtRest

\* return new Response(...)
Return(r) ==
    /\ responses' = Append(responses, r)
    /\ pc' = "done"

\* the fetch of the I2VGen-XL endpoint is issued
StartI2v ==
    /\ calls' = Append(calls, I2vCall(enhancedPrompt))
    /\ pc' = "i2vFetch"
    /\ UNCHANGED responses

\* serve(async (req) => { ... up to await req.json()
Receive(method, body) ==
    /\ pc = "idle"
    /\ req' = [method |-> method, body |-> body]
    /\ IF method = "OPTIONS" THEN Return(PreflightResponse)
       ELSE IF method # "POST" THEN Return(MethodNotAllowed)
       ELSE pc' = "reqJson" /\ UNCHANGED responses
    /\ UNCHANGED <<huggingfaceApiKey, enhancedPrompt, svdResponse, i2vResponse,
                   calls, inflight, attempts>>
    /\ UNCHANGED <<keyLookedUp, disconnectedAt>>
    /\ UNCHANGED <<encVars, uiVars>>

\* variant: the credential is read and checked before imageUrl is validated
ReqJsonKeyFirst ==
    /\ pc = "reqJson"
    /\ IF req.body.kind = "invalid" THEN
            /\ Return(InternalError("Unexpected token in JSON"))
            /\ UNCHANGED <<enhancedPrompt, calls, inflight, keyLookedUp>>
       ELSE IF req.body.kind = "null" THEN
            /\ Return(InternalError("Cannot destructure property of null"))
            /\ UNCHANGED <<enhancedPrompt, calls, inflight, keyLookedUp>>
       ELSE IF Falsy(huggingfaceApiKey) THEN
            /\ Return(KeyNotConfigured)
            /\ keyLookedUp' = TRUE
            /\ UNCHANGED <<enhancedPrompt, calls, inflight>>
       ELSE IF Falsy(req.body.imageUrl) THEN
            /\ Return(ImageRequired)
            /\ keyLookedUp' = TRUE
            /\ UNCHANGED <<enhancedPrompt, calls, inflight>>
       ELSE /\ enhancedPrompt' = EnhancedPrompt(req.body.prompt, req.body.animationStyle)
            /\ calls' = Append(calls, SvdCall)
            /\ inflight' = inflight \cup {SVD}
            /\ keyLookedUp' = TRUE
            /\ pc' = "svdFetch"
            /\ UNCHANGED responses
    /\ UNCHANGED <<huggingfaceApiKey, req, svdResponse, i2vResponse, attempts>>
    /\ UNCHANGED disconnectedAt
    /\ UNCHANGED <<encVars, uiVars>>

\* variant: both provider fetches are issued at once, without awaiting the first
ReqJsonBothAtOnce ==
    /\ pc = "reqJson"
    /\ IF req.body.kind # "object" THEN
            /\ Return(InternalError("Unexpected token in JSON"))
            /\ UNCHANGED <<enhancedPrompt, calls, inflight, keyLookedUp>>
       ELSE IF Falsy(req.body.imageUrl) THEN
            /\ Return(ImageRequired)
            /\ UNCHANGED <<enhancedPrompt, calls, inflight, keyLookedUp>>
       ELSE IF Falsy(huggingfaceApiKey) THEN
            /\ Return(KeyNotConfigured)
            /\ keyLookedUp' = TRUE
            /\ UNCHANGED <<enhancedPrompt, calls, inflight>>
       ELSE /\ enhancedPrompt' = EnhancedPrompt(req.body.prompt, req.body.animationStyle)
            /\ calls' = calls \o <<SvdCall, I2vCall(enhancedPrompt')>>
            /\ inflight' = inflight \cup {SVD, I2V}
            /\ keyLookedUp' = TRUE
            /\ pc' = "svdFetch"
            /\ UNCHANGED responses
    /\ UNCHANGED <<huggingfaceApiKey, req, svdResponse, i2vResponse, attempts>>
    /\ UNCHANGED disconnectedAt
    /\ UNCHANGED <<encVars, uiVars>>

\* await req.json() settles; validation, key lookup, prompt, SVD fetch issued
ReqJson ==
    /\ pc = "reqJson"
    /\ IF req.body.kind = "invalid" THEN
            /\ Return(InternalError("Unexpected token in JSON"))
            /\ UNCHANGED <<enhancedPrompt, calls, inflight, keyLookedUp>>
       ELSE IF req.body.kind = "null" THEN
            /\ Return(InternalError("Cannot destructure property of null"))
            /\ UNCHANGED <<enhancedPrompt, calls, inflight, keyLookedUp>>
       ELSE IF Falsy(req.body.imageUrl) THEN
            /\ Return(ImageRequired)
            /\ UNCHANGED <<enhancedPrompt, calls, inflight, keyLookedUp>>
       ELSE IF Falsy(huggingfaceApiKey) THEN
            /\ Return(KeyNotConfigured)
            /\ keyLookedUp' = TRUE
            /\ UNCHANGED <<enhancedPrompt, calls, inflight>>
       ELSE /\ enhancedPrompt' = EnhancedPrompt(req.body.prompt, req.body.animationStyle)
            /\ calls' = Append(calls, SvdCall)
            /\ inflight' = inflight \cup {SVD}
            /\ keyLookedUp' = TRUE
            /\ pc' = "svdFetch"
            /\ UNCHANGED responses
    /\ UNCHANGED <<huggingfaceApiKey, req, svdResponse, i2vResponse, attempts>>
    /\ UNCHANGED disconnectedAt
    /\ UNCHANGED <<encVars, uiVars>>

\* await fetch(SVD) resolves with a status
SvdFetchResolves(status) ==
    /\ pc = "svdFetch"
    /\ svdResponse' = FetchResponse(status)
    /\ pc' = "svdText"
    /\ UNCHANGED <<huggingfaceApiKey, req, enhancedPrompt, i2vResponse, calls,
                   inflight, attempts, responses>>
    /\ UNCHANGED <<keyLookedUp, disconnectedAt>>
    /\ UNCHANGED <<encVars, uiVars>>

\* await fetch(SVD) rejects: catch (svdError), then the fallback fetch
SvdFetchRejects ==
    /\ pc = "svdFetch"
    /\ attempts' = Append(attempts, Rejected(SVD))
    /\ inflight' = (inflight \ {SVD}) \cup {I2V}
    /\ StartI2v
    /\ UNCHANGED <<huggingfaceApiKey, req, enhancedPrompt, svdResponse, i2vResponse>>
    /\ UNCHANGED <<keyLookedUp, disconnectedAt>>
    /\ UNCHANGED <<encVars, uiVars>>

\* await svdResponse.text() rejects: catch (svdError), then the fallback fetch
SvdTextRejects ==
    /\ pc = "svdText"
    /\ attempts' = Append(attempts, Rejected(SVD))
    /\ inflight' = (inflight \ {SVD}) \cup {I2V}
    /\ StartI2v
    /\ UNCHANGED <<huggingfaceApiKey, req, enhancedPrompt, svdResponse, i2vResponse>>
    /\ UNCHANGED <<keyLookedUp, disconnectedAt>>
    /\ UNCHANGED <<encVars, uiVars>>

\* await svdResponse.text() resolves: classification of the SVD response
SvdText(responseText) ==
    /\ pc = "svdText"
    /\ attempts' = Append(attempts, Responded(SVD, svdResponse, responseText))
    /\ IF svdResponse.ok /\ InnerTryThrows(responseText) THEN
            IF SpreadThrows(responseText)
            THEN /\ inflight' = (inflight \ {SVD}) \cup {I2V}
                 /\ StartI2v
            ELSE /\ inflight' = inflight \ {SVD}
                 /\ Return(SuccessResponse(SVD, responseText))
                 /\ UNCHANGED calls
       ELSE IF Includes(responseText, "loading") \/ Includes(responseText, "Loading") THEN
            /\ inflight' = inflight \ {SVD}
            /\ Return(LoadingResponse)
            /\ UNCHANGED calls
       ELSE /\ inflight' = (inflight \ {SVD}) \cup {I2V}
            /\ StartI2v
    /\ UNCHANGED <<huggingfaceApiKey, req, enhancedPrompt, svdResponse, i2vResponse>>
    /\ UNCHANGED <<keyLookedUp, disconnectedAt>>
    /\ UNCHANGED <<encVars, uiVars>>

\* await fetch(I2VGen) resolves with a status
I2vFetchResolves(status) ==
    /\ pc = "i2vFetch"
    /\ i2vResponse' = FetchResponse(status)
    /\ pc' = "i2vText"
    /\ UNCHANGED <<huggingfaceApiKey, req, enhancedPrompt, svdResponse, calls,
                   inflight, attempts, responses>>
    /\ UNCHANGED <<keyLookedUp, disconnectedAt>>
    /\ UNCHANGED <<encVars, uiVars>>

\* await fetch(I2VGen) rejects: catch (i2vError), then the final 503
I2vFetchRejects ==
    /\ pc = "i2vFetch"
    /\ attempts' = Append(attempts, Rejected(I2V))
    /\ inflight' = inflight \ {I2V}
    /\ Return(UnavailableResponse)
    /\ UNCHANGED <<huggingfaceApiKey, req, enhancedPrompt, svdResponse, i2vResponse, calls>>
    /\ UNCHANGED <<keyLookedUp, disconnectedAt>>
    /\ UNCHANGED <<encVars, uiVars>>

\* await i2vResponse.text() rejects: catch (i2vError), then the final 503
I2vTextRejects ==
    /\ pc = "i2vText"
    /\ attempts' = Append(attempts, Rejected(I2V))
    /\ inflight' = inflight \ {I2V}
    /\ Return(UnavailableResponse)
    /\ UNCHANGED <<huggingfaceApiKey, req, enhancedPrompt, svdResponse, i2vResponse, calls>>
    /\ UNCHANGED <<keyLookedUp, disconnectedAt>>
    /\ UNCHANGED <<encVars, uiVars>>

\* await i2vResponse.text() resolves: classification of the I2VGen response
I2vText(i2vResponseText) ==
    /\ pc = "i2vText"
    /\ attempts' = Append(attempts, Responded(I2V, i2vResponse, i2vResponseText))
    /\ inflight' = inflight \ {I2V}
    /\ IF i2vResponse.ok /\ InnerTryThrows(i2vResponseText) THEN
            IF SpreadThrows(i2vResponseText)
            THEN Return(UnavailableResponse)
            ELSE Return(SuccessResponse(I2V, i2vResponseText))
       ELSE IF Includes(i2vResponseText, "loading") \/ Includes(i2vResponseText, "Loading")
            THEN Return(LoadingResponse)
            ELSE Return(UnavailableResponse)
    /\ UNCHANGED <<huggingfaceApiKey, req, enhancedPrompt, svdResponse, i2vResponse, calls>>
    /\ UNCHANGED <<keyLookedUp, disconnectedAt>>
    /\ UNCHANGED <<encVars, uiVars>>

\* the handler has returned; the server takes the next, independent request
NextRequest ==
    /\ pc = "done"
    /\ pc' = "idle"
    /\ req' = [method |-> "NONE", body |-> [kind |-> "none"]]
    /\ enhancedPrompt' = <<>>
    /\ svdResponse' = Unset
    /\ i2vResponse' = Unset
    /\ calls' = <<>>
    /\ inflight' = {}
    /\ attempts' = <<>>
    /\ responses' = <<>>
    /\ UNCHANGED huggingfaceApiKey
    /\ keyLookedUp' = FALSE
    /\ disconnectedAt' = "never"
    /\ UNCHANGED <<encVars, uiVars>>

\* the caller closes the connection while the handler is parked on an await;
\* the handler never looks at req.signal, so nothing else changes
CallerDisconnects ==
    /\ pc \in {"reqJson", "svdFetch", "svdText", "i2vFetch", "i2vText"}
    /\ disconnectedAt = "never"
    /\ disconnectedAt' = pc
    /\ UNCHANGED <<huggingfaceApiKey, pc, req, enhancedPrompt, svdResponse, i2vResponse,
                   calls, inflight, attempts, responses, keyLookedUp>>
    /\ UNCHANGED <<encVars, uiVars>>

Next ==
    \/ \E method \in Methods, body \in RequestBodies : Receive(method, body)
    \/ ReqJson
    \/ \E status \in ProviderStatuses : SvdFetchResolves(status)
    \/ SvdFetchRejects
    \/ SvdTextRejects
    \/ \E responseText \in ResponseTexts : SvdText(responseText)
    \/ \E status \in ProviderStatuses : I2vFetchResolves(status)
    \/ I2vFetchRejects
    \/ I2vTextRejects
    \/ \E i2vResponseText \in ResponseTexts : I2vText(i2vResponseText)
    \/ NextRequest
    \/ CallerDisconnects

Spec == Init /\ [][Next]_vars

\* Fairness of the handler's own steps: a continuation runs once the promise
\* it awaits has settled, and the request body of an accepted connection
\* arrives.  Nothing obliges a provider to settle a fetch.
FairSpec == Spec /\ WF_vars(ReqJson) /\ WF_vars(NextRequest)

-----------------------------------------------------------------------------
(* The encoding of a provider payload: response.text(), TextEncoder,       *)
(* String.fromCharCode, btoa, and the data URL.  Bytes and code points are *)
(* numbers, a base64 string is the sequence of its digit values 0..63 with *)
(* 64 for the padding character.                                           *)

MaxLen == 3

\* bytes the longer payloads are made of: NUL, "A", the two bytes of U+00E9,
\* the three bytes of the byte order mark, and 0xFF.  None of them can be
\* part of a JSON text.
SampleBytes == {0, 65, 195, 169, 239, 187, 191, 255}

\* every one-byte payload, and every payload of up to MaxLen sample bytes
Payloads ==
    {<<b>> : b \in 0..255} \cup UNION {[1..k -> SampleBytes] : k \in 0..MaxLen}

ReplacementCharacter == 65533

ByteOrderMark == 65279

\* the UTF-8 decoder of response.text(): malformed input becomes U+FFFD
RECURSIVE Utf8DecodeFrom(_, _, _, _, _, _)
Utf8DecodeFrom(bytes, i, needed, codePoint, lower, upper) ==
    IF i > Len(bytes)
    THEN IF needed > 0 THEN <<ReplacementCharacter>> ELSE <<>>
    ELSE LET b == bytes[i] IN
         IF needed = 0 THEN
            IF b <= 127 THEN <<b>> \o Utf8DecodeFrom(bytes, i + 1, 0, 0, 128, 191)
            ELSE IF b >= 194 /\ b <= 223
                 THEN Utf8DecodeFrom(bytes, i + 1, 1, b - 192, 128, 191)
            ELSE IF b >= 224 /\ b <= 239
                 THEN Utf8DecodeFrom(bytes, i + 1, 2, b - 224,
                                     IF b = 224 THEN 160 ELSE 128,
                                     IF b = 237 THEN 159 ELSE 191)
            ELSE IF b >= 240 /\ b <= 244
                 THEN Utf8DecodeFrom(bytes, i + 1, 3, b - 240,
                                     IF b = 240 THEN 144 ELSE 128,
                                     IF b = 244 THEN 143 ELSE 191)
            ELSE <<ReplacementCharacter>> \o Utf8DecodeFrom(bytes, i + 1, 0, 0, 128, 191)
         ELSE IF b < lower \/ b > upper
              THEN <<ReplacementCharacter>> \o Utf8DecodeFrom(bytes, i, 0, 0, 128, 191)
         ELSE IF needed = 1
              THEN <<(codePoint * 64) + (b - 128)>>
                   \o Utf8DecodeFrom(bytes, i + 1, 0, 0, 128, 191)
         ELSE Utf8DecodeFrom(bytes, i + 1, needed - 1, (codePoint * 64) + (b - 128), 128, 191)

\* await response.text(): UTF-8 decode, a leading byte order mark dropped
ResponseTextOf(bytes) ==
    LET codePoints == Utf8DecodeFrom(bytes, 1, 0, 0, 128, 191)
    IN  IF Len(codePoints) >= 1 /\ codePoints[1] = ByteOrderMark
        THEN Tail(codePoints) ELSE codePoints

\* the UTF-8 bytes of one code point
Utf8Bytes(c) ==
    IF c < 128 THEN <<c>>
    ELSE IF c < 2048 THEN <<192 + (c \div 64), 128 + (c % 64)>>
    ELSE IF c < 65536
         THEN <<224 + (c \div 4096), 128 + ((c \div 64) % 64), 128 + (c % 64)>>
    ELSE <<240 + (c \div 262144), 128 + ((c \div 4096) % 64),
           128 + ((c \div 64) % 64), 128 + (c % 64)>>

\* new TextEncoder().encode(text)
RECURSIVE TextEncode(_)
TextEncode(text) ==
    IF text = <<>> THEN <<>> ELSE Utf8Bytes(Head(text)) \o TextEncode(Tail(text))

\* String.fromCharCode(...codes): one UTF-16 code unit per argument
FromCharCode(codes) == [i \in 1..Len(codes) |-> codes[i] % 65536]

\* btoa: three characters become four digits, the last group is padded
Btoa(chars) ==
    LET n == Len(chars)
        Digits(k) ==
            LET a == chars[3 * k - 2]
                hasB == 3 * k - 1 <= n
                hasC == 3 * k <= n
                b == IF hasB THEN chars[3 * k - 1] ELSE 0
                c == IF hasC THEN chars[3 * k] ELSE 0
            IN  << a \div 4,
                   ((a % 4) * 16) + (b \div 16),
                   IF hasB THEN ((b % 16) * 4) + (c \div 64) ELSE 64,
                   IF hasC THEN c % 64 ELSE 64 >>
    IN  [j \in 1..(4 * ((n + 2) \div 3)) |-> Digits(((j - 1) \div 4) + 1)[((j - 1) % 4) + 1]]

\* `data:video/mp4;base64,${base64Video}` with the digits spelled out
DataUrl(base64Video) ==
    [mime |-> "video/mp4", encoding |-> "base64", data |-> base64Video]

\* JSON.parse succeeds on the text.  On the payloads above the only texts
\* that are JSON are the single digits.
ParsesAsJson(text) == Len(text) = 1 /\ text[1] >= 48 /\ text[1] <= 57

EncInit ==
    /\ huggingfaceApiKey = Undefined
    /\ HandlerIdle
    /\ PageAtRest
    /\ payload \in Payloads
    /\ bodyText = <<>>
    /\ videoDataUrl = Null
    /\ encPc = "text"

\* const responseText = await svdResponse.text()
ReadText ==
    /\ encPc = "text"
    /\ bodyText' = ResponseTextOf(payload)
    /\ encPc' = "encode"
    /\ UNCHANGED <<payload, videoDataUrl>>
    /\ UNCHANGED <<handlerVars, uiVars>>

\* the inner try/catch on a 2xx response: a text that parses (and has no
\* error field) skips the catch; otherwise the text is encoded
EncodeVideo ==
    /\ encPc = "encode"
    /\ IF ParsesAsJson(bodyText)
       THEN /\ encPc' = "skipped"
            /\ UNCHANGED videoDataUrl
       ELSE /\ videoDataUrl' = DataUrl(Btoa(FromCharCode(TextEncode(bodyText))))
            /\ encPc' = "done"
    /\ UNCHANGED <<payload, bodyText>>
    /\ UNCHANGED <<handlerVars, uiVars>>

EncNext ==
    \/ ReadText
    \/ EncodeVideo

EncSpec == EncInit /\ [][EncNext]_vars

-----------------------------------------------------------------------------
(* The page (App.tsx): image selection, generateVideo and resetApp.  The   *)
(* prompt and the selected style are left out: generateVideo only builds   *)
(* an unused string from them.                                             *)

MaxImageBytes == 10485760

\* files the user can pick: two acceptable images (one exactly at the size
\* limit), a file that is not an image, and an image over the limit
Files ==
    { [name |-> "a.png", type |-> "image/png", size |-> 1024],
      [name |-> "b.png", type |-> "image/png", size |-> MaxImageBytes],
      [name |-> "c.txt", type |-> "text/plain", size |-> 1024],
      [name |-> "d.png", type |-> "image/png", size |-> MaxImageBytes + 1] }

\* file.type.startsWith('image/')
IsImage(file) == file.type \in {"image/png"}

\* reader.readAsDataURL(file) result
PreviewOf(file) == [dataUrlOf |-> file.name]

\* publicUrl returned by blink.storage.upload for the file
PublicUrl(file) == [publicUrl |-> file.name]

\* Math.random() * 15, the amounts one tick adds
ProgressSteps == {0, 7, 14}

UiInit ==
    /\ huggingfaceApiKey = Undefined
    /\ HandlerIdle
    /\ EncoderAtRest
    /\ PageAtRest

\* handleImageSelect(file), from the file input or a drop
HandleImageSelect(file) ==
    /\ generatedVideo = Null
    /\ IF ~IsImage(file) THEN
            /\ lastToast' = "Invalid file type"
            /\ UNCHANGED <<selectedImage, reading>>
       ELSE IF file.size > MaxImageBytes THEN
            /\ lastToast' = "File too large"
            /\ UNCHANGED <<selectedImage, reading>>
       ELSE /\ selectedImage' = file
            /\ reading' = reading \cup {file}
            /\ UNCHANGED lastToast
    /\ UNCHANGED <<imagePreview, generatedVideo, isGenerating, progress,
                   progressInterval, uiPc, uploading>>
    /\ UNCHANGED <<handlerVars, encVars>>

\* reader.onload
ReaderLoads(file) ==
    /\ file \in reading
    /\ reading' = reading \ {file}
    /\ imagePreview' = PreviewOf(file)
    /\ UNCHANGED <<selectedImage, generatedVideo, isGenerating, progress,
                   progressInterval, uiPc, uploading, lastToast>>
    /\ UNCHANGED <<handlerVars, encVars>>

\* generateVideo up to its first await (the button is rendered only with a
\* preview, no result and no generation running)
GenerateVideo ==
    /\ generatedVideo = Null
    /\ imagePreview # Null
    /\ ~isGenerating
    /\ uiPc = "idle"
    /\ IF selectedImage = Null THEN
            /\ lastToast' = "No image selected"
            /\ UNCHANGED <<isGenerating, progress, uiPc, uploading>>
       ELSE /\ isGenerating' = TRUE
            /\ progress' = 0
            /\ uploading' = selectedImage
            /\ uiPc' = "upload"
            /\ UNCHANGED lastToast
    /\ UNCHANGED <<selectedImage, imagePreview, reading, generatedVideo, progressInterval>>
    /\ UNCHANGED <<handlerVars, encVars>>

\* await blink.storage.upload resolves: the interval and the timer start
UploadResolves ==
    /\ uiPc = "upload"
    /\ progressInterval' = TRUE
    /\ uiPc' = "timeout"
    /\ UNCHANGED <<selectedImage, imagePreview, reading, generatedVideo, isGenerating,
                   progress, uploading, lastToast>>
    /\ UNCHANGED <<handlerVars, encVars>>

\* variant: the cleanup sits after the try/catch instead of in a finally
\* clause and is skipped on the failure path
UploadRejectsNoCleanup ==
    /\ uiPc = "upload"
    /\ lastToast' = "Generation failed"
    /\ uiPc' = "idle"
    /\ uploading' = Null
    /\ UNCHANGED <<selectedImage, imagePreview, reading, generatedVideo, isGenerating,
                   progress, progressInterval>>
    /\ UNCHANGED <<handlerVars, encVars>>

\* await blink.storage.upload rejects: catch, then finally
UploadRejects ==
    /\ uiPc = "upload"
    /\ lastToast' = "Generation failed"
    /\ isGenerating' = FALSE
    /\ progress' = 0
    /\ uiPc' = "idle"
    /\ uploading' = Null
    /\ UNCHANGED <<selectedImage, imagePreview, reading, generatedVideo, progressInterval>>
    /\ UNCHANGED <<handlerVars, encVars>>

\* one run of the interval callback
ProgressTick(step) ==
    /\ progressInterval
    /\ IF progress >= 90
       THEN /\ progressInterval' = FALSE
            /\ progress' = 90
       ELSE /\ progress' = progress + step
            /\ UNCHANGED progressInterval
    /\ UNCHANGED <<selectedImage, imagePreview, reading, generatedVideo, isGenerating,
                   uiPc, uploading, lastToast>>
    /\ UNCHANGED <<handlerVars, encVars>>

\* the 8000 ms timer fires: the rest of the try block, then finally
TimeoutFires ==
    /\ uiPc = "timeout"
    /\ progressInterval' = FALSE
    /\ generatedVideo' = PublicUrl(uploading)
    /\ lastToast' = "Video generated successfully!"
    /\ isGenerating' = FALSE
    /\ progress' = 0
    /\ uiPc' = "idle"
    /\ uploading' = Null
    /\ UNCHANGED <<selectedImage, imagePreview, reading>>
    /\ UNCHANGED <<handlerVars, encVars>>

\* resetApp, from the button on the preview or from "Create Another"
ResetApp ==
    /\ \/ generatedVideo # Null
       \/ imagePreview # Null
    /\ selectedImage' = Null
    /\ imagePreview' = Null
    /\ generatedVideo' = Null
    /\ progress' = 0
    /\ UNCHANGED <<reading, isGenerating, progressInterval, uiPc, uploading, lastToast>>
    /\ UNCHANGED <<handlerVars, encVars>>

UiNext ==
    \/ \E file \in Files : HandleImageSelect(file)
    \/ \E file \in Files : ReaderLoads(file)
    \/ GenerateVideo
    \/ UploadResolves
    \/ UploadRejects
    \/ \E step \in ProgressSteps : ProgressTick(step)
    \/ TimeoutFires
    \/ ResetApp

UiSpec == UiInit /\ [][UiNext]_vars

\* the upload promise settles one way or the other and the timer fires
UiFairSpec ==
    /\ UiSpec
    /\ WF_vars(UploadResolves \/ UploadRejects)
    /\ WF_vars(TimeoutFires)

-----------------------------------------------------------------------------
(* Properties *)

\* a request field or credential that is absent or empty
Missing(x) == x \in {Undefined, ""}

\* the request passed the method check, the body parse, the imageUrl check
\* and the credential check
Validated ==
    /\ req.method = "POST"
    /\ req.body.kind = "object"
    /\ ~Missing(req.body.imageUrl)
    /\ ~Missing(huggingfaceApiKey)

\* attempt i ended without a usable video: the call threw or the response
\* was classified as a failure
Failed(a) ==
    \/ a.settled = "rejected"
    \/ /\ a.settled = "response"
       /\ a.class \in {"StructuredError", "OtherFailure"}

IsClass(a, class) == a.settled = "response" /\ a.class = class

\* exactly one response was returned, a 200 success naming the model
SucceededWith(model) ==
    /\ Len(responses) = 1
    /\ responses[1].status = 200
    /\ responses[1].body.success = TRUE
    /\ responses[1].body.model = model

\* C1: the providers are called in priority order and one after the other:
\* the first call of a request goes to stable-video-diffusion, the i2vgen-xl
\* call is issued only after the stable-video-diffusion attempt has
\* concluded, and at no time are two provider calls in flight.
C1_SequentialPriorityOrder ==
    /\ Cardinality(inflight) <= 1
    /\ Len(calls) >= 1 => calls[1].model = SVD
    /\ \A i \in 1..Len(calls) :
          calls[i].model = I2V =>
             /\ i = 2
             /\ Len(attempts) >= 1
             /\ attempts[1].provider = SVD
             /\ SVD \notin inflight

C1_Witness ==
    /\ Len(calls) = 2
    /\ calls[1].model = SVD
    /\ calls[2].model = I2V
    /\ Len(attempts) = 1
    /\ attempts[1].provider = SVD
    /\ inflight = {I2V}

\* C2: whenever a provider's response is classified BinarySuccess the chain
\* stops at that provider: the response is 200 with success:true and that
\* provider's name as model, and no later provider is called.
C2_SuccessShortCircuits ==
    \A i \in 1..Len(attempts) :
        IsClass(attempts[i], "BinarySuccess") =>
            /\ Len(attempts) = i
            /\ Len(calls) = i
            /\ SucceededWith(attempts[i].provider)

\* C3: whenever the first provider's attempt fails and the second provider's
\* response is classified BinarySuccess, the outcome is a 200 success
\* attributed to i2vgen-xl and no further call is made.
C3_FallbackOnFailure ==
    ( /\ Len(attempts) = 2
      /\ attempts[1].provider = SVD
      /\ Failed(attempts[1])
      /\ attempts[2].provider = I2V
      /\ IsClass(attempts[2], "BinarySuccess") )
    => /\ SucceededWith(I2V)
       /\ Len(calls) = 2

\* C4: a 2xx response whose body parses as JSON with a truthy error field
\* never results in a 200 success attributed to that provider, and its body
\* is never encoded as the video.
C4_StructuredErrorIsNotSuccess ==
    \A i \in 1..Len(attempts) :
        ( /\ attempts[i].settled = "response"
          /\ attempts[i].ok
          /\ attempts[i].text.json = "errorField" )
        => \A k \in 1..Len(responses) :
              ~ /\ responses[k].status = 200
                /\ responses[k].body.success = TRUE
                /\ \/ responses[k].body.model = attempts[i].provider
                   \/ responses[k].body.videoUrl = VideoDataUrl(attempts[i].text)

\* C5: whenever a provider's response is classified ModelLoading the handler
\* stops at once: the response is 503 with success:false and a retryAfter
\* greater than zero, and no later provider is called.
C5_LoadingAbortsChain ==
    \A i \in 1..Len(attempts) :
        IsClass(attempts[i], "ModelLoading") =>
            /\ Len(attempts) = i
            /\ Len(calls) = i
            /\ Len(responses) = 1
            /\ responses[1].status = 503
            /\ responses[1].body.success = FALSE
            /\ "retryAfter" \in DOMAIN responses[1].body
            /\ responses[1].body.retryAfter > 0

C5_Witness ==
    /\ Len(attempts) = 1
    /\ attempts[1].provider = SVD
    /\ IsClass(attempts[1], "ModelLoading")
    /\ ~attempts[1].ok
    /\ attempts[1].text.marker = "Loading"
    /\ pc = "done"

\* every provider of the chain was attempted and none was classified
\* BinarySuccess or ModelLoading
Exhausted ==
    /\ Len(attempts) = 2
    /\ attempts[1].provider = SVD
    /\ attempts[2].provider = I2V
    /\ \A i \in 1..2 : Failed(attempts[i])

C7_ValidationShortCircuits ==
    /\ Len(calls) >= 1 => Validated
    /\ ( /\ pc = "done"
         /\ req.method = "POST"
         /\ req.body.kind = "object"
         /\ ~Missing(req.body.imageUrl)
         /\ Missing(huggingfaceApiKey) )
       => /\ Len(responses) = 1
          /\ responses[1].status = 500
          /\ Len(calls) = 0
          /\ Len(attempts) = 0
    /\ ( /\ pc = "done"
         /\ req.method = "POST"
         /\ req.body.kind = "object"
         /\ Missing(req.body.imageUrl) )
       => /\ Len(responses) = 1
          /\ responses[1].status = 400
          /\ Len(calls) = 0
          /\ Len(attempts) = 0

C7_Witness ==
    /\ pc = "done"
    /\ req.method = "POST"
    /\ req.body.kind = "object"
    /\ req.body.imageUrl = "https://x/img.png"
    /\ huggingfaceApiKey = Undefined
    /\ responses = <<KeyNotConfigured>>
    /\ calls = <<>>

\* C8: once the request is validated and the credential found, no outcome of
\* a provider attempt yields a 500: every response is 200 or 503.
C8_ProviderFailuresNotRaised ==
    Validated =>
        /\ \A k \in 1..Len(responses) : responses[k].status \in {200, 503}
        /\ pc = "done" => Len(responses) = 1

\* both attempts ended in an exception: the first call threw, the second
\* response was taken for a video and its encoding threw
C8_Witness ==
    /\ Validated
    /\ pc = "done"
    /\ Len(attempts) = 2
    /\ attempts[1].settled = "rejected"
    /\ IsClass(attempts[2], "BinarySuccess")
    /\ SpreadThrows(attempts[2].text)
    /\ responses[1].status = 503

\* C9: within one request each provider endpoint is called at most once, so
\* at most two provider calls are made.
C9_NoProviderRetried ==
    /\ Len(calls) <= 2
    /\ \A i, j \in 1..Len(calls) :
          i # j => /\ calls[i].url # calls[j].url
                   /\ calls[i].model # calls[j].model

C9_Witness ==
    /\ pc = "done"
    /\ Len(calls) = 2
    /\ Len(attempts) = 2
    /\ IsClass(attempts[1], "OtherFailure")

\* C10: every accepted POST request eventually receives a response, even
\* when a provider never answers (a per-call timeout would turn the missing
\* answer into a failure and let the chain proceed).
C10_AcceptedEventuallyAnswered ==
    (pc \in {"svdFetch", "svdText", "i2vFetch", "i2vText"}) ~> (Len(responses) = 1)

\* C11: a 2xx response whose body parses as JSON and carries no error field
\* is taken as the video: the request ends in a 200 success from that
\* provider, never in a loading response or a move to the next provider.
C11_JsonWithoutErrorIsSuccess ==
    \A i \in 1..Len(attempts) :
        ( /\ attempts[i].settled = "response"
          /\ attempts[i].ok
          /\ attempts[i].text.json = "noErrorField"
          /\ attempts[i].text.size = "small" )
        => /\ Len(attempts) = i
           /\ Len(calls) = i
           /\ SucceededWith(attempts[i].provider)

\* C12: a non-2xx response whose body contains "loading" in any letter case
\* is treated as ModelLoading (503 with retryAfter, chain stopped), whether
\* or not the body also parses as JSON.
C12_LoadingMarkerAnyCase ==
    \A i \in 1..Len(attempts) :
        ( /\ attempts[i].settled = "response"
          /\ ~attempts[i].ok
          /\ attempts[i].text.marker \in {"loading", "Loading", "LOADING"} )
        => /\ attempts[i].class = "ModelLoading"
           /\ Len(attempts) = i
           /\ Len(calls) = i
           /\ Len(responses) = 1
           /\ responses[1].status = 503
           /\ "retryAfter" \in DOMAIN responses[1].body

RecognizedStyles == {"smooth", "dynamic", "cinematic"}

\* C13: a parsed POST request is rejected with 400 and no provider call
\* exactly when imageUrl is absent or empty or animationStyle is not one of
\* smooth, dynamic, cinematic; every other request proceeds to the chain.
C13_RejectedExactlyWhenInvalid ==
    ( /\ req.method = "POST"
      /\ req.body.kind = "object"
      /\ ~Missing(huggingfaceApiKey)
      /\ pc \notin {"idle", "reqJson"} )
    => ( ( /\ Len(responses) = 1
           /\ responses[1].status = 400
           /\ Len(calls) = 0 )
         <=> ( \/ Missing(req.body.imageUrl)
               \/ req.body.animationStyle \notin RecognizedStyles ) )

\* C15: every response to a POST request is exactly one outcome variant:
\* status 200 exactly when success is true, and then videoUrl and model are
\* present and error and retryAfter absent; every 503 has success:false, an
\* error message and a retryAfter greater than zero; every 400 and 500 has
\* success:false and no videoUrl.
C15_UniformOutcome ==
    req.method = "POST" =>
        /\ Len(responses) <= 1
        /\ \A k \in 1..Len(responses) :
            LET r == responses[k]
                fields == DOMAIN r.body
            IN  /\ r.status \in {200, 400, 500, 503}
                /\ "success" \in fields
                /\ (r.status = 200) <=> (r.body.success = TRUE)
                /\ r.status = 200 =>
                      /\ {"videoUrl", "model"} \subseteq fields
                      /\ fields \cap {"error", "retryAfter"} = {}
                /\ r.status = 503 =>
                      /\ "error" \in fields
                      /\ "retryAfter" \in fields
                      /\ r.body.retryAfter > 0
                /\ r.status \in {400, 500} => "videoUrl" \notin fields

\* a 503 answered from the second provider's loading branch
C15_Witness ==
    /\ req.method = "POST"
    /\ pc = "done"
    /\ Len(attempts) = 2
    /\ IsClass(attempts[2], "ModelLoading")
    /\ Len(responses) = 1
    /\ responses[1].status = 503

\* C17: an exception raised outside the provider attempts (the request body
\* does not parse) yields 500 with success:false and no provider call, and
\* the body exposes only the fixed message, not the exception's message.
C17_InternalErrorSanitized ==
    ( /\ pc = "done"
      /\ req.method = "POST"
      /\ req.body.kind \in {"invalid", "null"} )
    => /\ Len(responses) = 1
       /\ responses[1].status = 500
       /\ responses[1].body.success = FALSE
       /\ Len(calls) = 0
       /\ DOMAIN responses[1].body = {"success", "error"}
       /\ responses[1].body.error = "Internal server error during video generation"

\* the suffix each recognized style stands for
SuffixOfStyle(style) ==
    CASE style = "smooth" ->
            ", smooth flowing motion, gentle movement, soft transitions, subtle animation"
      [] style = "dynamic" ->
            ", dynamic motion, energetic movement, vibrant action, lively animation"
      [] style = "cinematic" ->
            ", cinematic motion, dramatic movement, film-like quality, professional animation"

\* C19: for a recognized style the composed prompt is the base text followed
\* by exactly one suffix, the one of the requested style; a supplied
\* (non-empty) user prompt is the base text, verbatim.
C19_PromptComposition ==
    ( /\ Len(calls) >= 1
      /\ req.body.animationStyle \in RecognizedStyles )
    => /\ Len(enhancedPrompt) = 2
       /\ enhancedPrompt[2] = SuffixOfStyle(req.body.animationStyle)
       /\ ~Missing(req.body.prompt) => enhancedPrompt[1] = req.body.prompt
       /\ Missing(req.body.prompt) =>
             enhancedPrompt[1] = "animate this image with natural motion"
       /\ \A i \in 1..Len(calls) :
             calls[i].model = I2V => calls[i].inputs = enhancedPrompt

C19_Witness ==
    /\ Len(calls) = 2
    /\ req.body.animationStyle = "cinematic"
    /\ req.body.prompt = "a cat waving"
    /\ calls[2].inputs = <<"a cat waving", SuffixOfStyle("cinematic")>>

\* C14: validation comes before the credential lookup: a request without a
\* usable imageUrl is answered 400, never 500, even when the credential is
\* absent too, and the credential is not read for it.
C14_ValidationBeforeKeyLookup ==
    /\ keyLookedUp =>
          /\ req.body.kind = "object"
          /\ ~Missing(req.body.imageUrl)
    /\ ( /\ pc = "done"
         /\ req.method = "POST"
         /\ req.body.kind = "object"
         /\ Missing(req.body.imageUrl) )
       => /\ Len(responses) = 1
          /\ responses[1].status = 400
          /\ ~keyLookedUp

C14_Witness ==
    /\ pc = "done"
    /\ req.method = "POST"
    /\ req.body.kind = "object"
    /\ req.body.imageUrl = ""
    /\ huggingfaceApiKey = Undefined
    /\ responses = <<ImageRequired>>
    /\ ~keyLookedUp

\* C18: when the caller disconnects while a provider call is in flight, no
\* further provider is attempted; after a disconnect during the
\* stable-video-diffusion call the i2vgen-xl call is never issued.
C18_NoCallAfterDisconnect ==
    disconnectedAt \in {"svdFetch", "svdText"} =>
        \A i \in 1..Len(calls) : calls[i].model # I2V

\* atob: four digits become up to three bytes
RECURSIVE Atob(_)
Atob(digits) ==
    IF Len(digits) < 4 THEN <<>>
    ELSE LET s1 == digits[1]
             s2 == digits[2]
             s3 == digits[3]
             s4 == digits[4]
             first == <<(s1 * 4) + (s2 \div 16)>>
             second == IF s3 = 64 THEN <<>> ELSE <<((s2 % 16) * 16) + (s3 \div 4)>>
             third == IF s4 = 64 THEN <<>> ELSE <<((s3 % 4) * 64) + s4>>
         IN  first \o second \o third \o Atob(SubSeq(digits, 5, Len(digits)))

\* the payload is a JSON text (on the payloads of the model: one digit)
PayloadIsJson == Len(payload) = 1 /\ payload[1] \in 48..57

\* C16: for every payload that is not JSON the encoding produces a video URL
\* whose base64 data decodes to exactly the original bytes.
C16_EncodingRoundTrip ==
    ( /\ encPc \in {"done", "skipped"}
      /\ ~PayloadIsJson )
    => /\ encPc = "done"
       /\ videoDataUrl # Null
       /\ Atob(videoDataUrl.data) = payload

\* C20: a generateVideo call that started generating ends with isGenerating
\* false, progress 0 and its interval stopped, whether the upload succeeds or
\* throws; generatedVideo is set only on the success path.
C20_GenerationLifecycle ==
    /\ [](uiPc = "idle" => (~isGenerating /\ progress = 0 /\ ~progressInterval))
    /\ (isGenerating ~> (uiPc = "idle" /\ ~isGenerating /\ progress = 0 /\ ~progressInterval))
    /\ [][(generatedVideo' # generatedVideo /\ generatedVideo' # Null)
            => (uiPc = "timeout" /\ lastToast' = "Video generated successfully!")]_vars

\* a generation that failed has been cleaned up
C20_Witness ==
    /\ uiPc = "idle"
    /\ lastToast = "Generation failed"
    /\ selectedImage # Null
    /\ generatedVideo = Null
    /\ ~isGenerating
    /\ progress = 0
    /\ ~progressInterval

\* C21: whenever generatedVideo is non-null, selectedImage is non-null and is
\* the image that video was generated from; a generation that was still in
\* flight when the page was reset, or when another image was selected, does
\* not set generatedVideo when it completes.
C21_NoStaleResult ==
    generatedVideo # Null =>
        /\ selectedImage # Null
        /\ generatedVideo = PublicUrl(selectedImage)

====
